---- MODULE Spec2Model ----
(***************************************************************************)
(* Model of example-naver-option.js: one run of getProductOptionExample.   *)
(* JavaScript values are tagged records, objects are functions from field  *)
(* names to values, console output is one sequence of lines that keeps the *)
(* order of the calls across both streams.                                 *)
(***************************************************************************)
EXTENDS Integers, Sequences, FiniteSets, TLC

VARIABLES pc, env, productId, naverAPI, detailCalls, productDetail, reads,
          optionInfo, parseCalls, parsed, error, caught, out, result

vars == <<pc, env, productId, naverAPI, detailCalls, productDetail, reads,
          optionInfo, parseCalls, parsed, error, caught, out, result>>

(***************************************************************************)
(* Bounds                                                                  *)
(***************************************************************************)
\* the most entries one optionInfo carries, over its four collections
MaxEntries == 4

(***************************************************************************)
(* JavaScript values                                                       *)
(***************************************************************************)
Unset == [t |-> "unset"]
Undefined == [t |-> "undefined"]
Null == [t |-> "null"]
Str(s) == [t |-> "string", s |-> s]
Num(n) == [t |-> "number", n |-> n]
Bool(b) == [t |-> "boolean", b |-> b]
Arr(a) == [t |-> "array", a |-> a]
Obj(o) == [t |-> "object", o |-> o]

Nullish(v) == v.t \in {"undefined", "null"}

\* ToBoolean, as applied by !x, x && y, x || y
Truthy(v) ==
    CASE v.t \in {"undefined", "null"} -> FALSE
      [] v.t = "string" -> v.s # ""
      [] v.t = "number" -> v.n # 0
      [] v.t = "boolean" -> v.b
      [] OTHER -> TRUE

\* v.f for a v that is not null or undefined (those throw a TypeError)
GetProp(v, f) ==
    CASE v.t = "object" -> IF f \in DOMAIN v.o THEN v.o[f] ELSE Undefined
      [] v.t = "array" /\ f = "length" -> Num(Len(v.a))
      [] OTHER -> Undefined

\* ${v} in a template literal, for the values an entry field can hold
ToStr(v) ==
    CASE v.t = "undefined" -> "undefined"
      [] v.t = "null" -> "null"
      [] v.t = "string" -> v.s
      [] v.t = "number" -> ToString(v.n)
      [] v.t = "boolean" -> IF v.b THEN "true" ELSE "false"
      [] OTHER -> "[object]"

\* Array.prototype.join: null and undefined elements become the empty string
RECURSIVE JoinFrom(_, _, _)
JoinFrom(a, sep, i) ==
    IF i > Len(a) THEN ""
    ELSE (IF i > 1 THEN sep ELSE "")
         \o (IF Nullish(a[i]) THEN "" ELSE ToStr(a[i]))
         \o JoinFrom(a, sep, i + 1)

Join(arr, sep) == JoinFrom(arr.a, sep, 1)

\* JSON.stringify: object fields holding undefined are dropped, undefined
\* array elements become null, a top-level undefined stays undefined
RECURSIVE JSONValue(_)
JSONValue(v) ==
    CASE v.t = "object" ->
           LET keep == {f \in DOMAIN v.o : v.o[f].t # "undefined"}
           IN  Obj([f \in keep |-> JSONValue(v.o[f])])
      [] v.t = "array" ->
           Arr([i \in 1..Len(v.a) |->
                  IF v.a[i].t = "undefined" THEN Null ELSE JSONValue(v.a[i])])
      [] OTHER -> v

JSONstringify(v) == [t |-> "json", of |-> JSONValue(v)]

Line(stream, kind, args) == [stream |-> stream, kind |-> kind, args |-> args]

TypeError == Obj([message |-> Str("Cannot read properties")])

(***************************************************************************)
(* Inputs: environment, product ids, collaborator outcomes                 *)
(***************************************************************************)
EnvValues == {Undefined, Str(""), Str("key")}

TARGET_PRODUCT_ID == "1234567890"

ProductIds == {TARGET_PRODUCT_ID, "42"}

SimpleEntries ==
    {Obj([groupName |-> Str("Color"), name |-> Str("Red"), id |-> Str("1")])}

CombinationEntries ==
    {Obj([optionName |-> Str("Red/L"), id |-> Str("c1"), stockQuantity |-> Num(5)])}

CustomEntries ==
    {Obj([groupName |-> Str("Engraving"), inputLimit |-> Num(10)])}

StandardEntries ==
    {Obj([optionName |-> Str("Red"), standardOptionName |-> Str("Crimson"), id |-> Str("s1")]),
     Obj([standardOptionName |-> Str("Blue")]),
     Obj([optionName |-> Str(""), standardOptionName |-> Str("Navy"), id |-> Str("s3")])}

GroupNameValues == {Undefined, Arr(<<Str("Color"), Str("Size")>>)}

\* the arrays of n entries; a collection without entries may also be absent
Collections(E, n, absent) ==
    {Arr(s) : s \in [1..n -> E]} \cup (IF n = 0 THEN absent ELSE {})

\* how many entries each of the four collections holds
Lengths ==
    {l \in [1..4 -> 0..MaxEntries] : l[1] + l[2] + l[3] + l[4] <= MaxEntries}

\* an optionInfo object; a field whose value is undefined is the same to the
\* code as a missing field, so absence is modelled by the value undefined
OptionInfos ==
    UNION {
      {Obj([optionSimple |-> s, optionCombinations |-> c,
            optionCombinationGroupNames |-> g, optionCustom |-> u,
            optionStandards |-> d]) :
          s \in Collections(SimpleEntries, l[1], {Undefined}),
          c \in Collections(CombinationEntries, l[2], {Undefined}),
          g \in GroupNameValues,
          u \in Collections(CustomEntries, l[3], {Undefined, Null}),
          d \in Collections(StandardEntries, l[4], {Undefined})} :
      l \in Lengths}

OptionInfoValues == {Undefined, Null, Obj(<<>>)} \cup OptionInfos

ProductDetails ==
    {Obj([name |-> Str("Shirt")]),
     Obj([name |-> Str("Shirt"), originProduct |-> Null]),
     Obj([name |-> Str("Shirt"), originProduct |-> Obj(<<>>)]),
     Obj([name |-> Str("Shirt"), originProduct |-> Obj([detailAttribute |-> Null])])}
    \cup
    {Obj([name |-> Str("Shirt"),
          originProduct |-> Obj([detailAttribute |-> Obj([optionInfo |-> oi])])]) :
        oi \in OptionInfoValues}

FalsyResults == {Null, Undefined, Num(0), Str(""), Bool(FALSE)}

\* what a promise can be rejected with: an Error, a value without a
\* message, or nothing at all (reject() / throw null)
RejectReasons == {Obj([message |-> Str("timeout")]), Str("ECONNRESET"), Undefined, Null}

ParsedOptions == {Obj([options |-> Arr(<<>>)]),
                  Obj([options |-> Arr(<<Str("x")>>), total |-> Num(1)])}

(***************************************************************************)
(* The steps of getProductOptionExample                                    *)
(***************************************************************************)
Init ==
    /\ pc = "start"
    /\ env \in [NAVER_CLIENT_ID : EnvValues, NAVER_CLIENT_SECRET : EnvValues]
    /\ productId \in ProductIds
    /\ naverAPI = Unset
    /\ detailCalls = <<>>
    /\ productDetail = Unset
    /\ reads = {}
    /\ optionInfo = Unset
    /\ parseCalls = <<>>
    /\ parsed = Unset
    /\ error = Unset
    /\ caught = 0
    /\ out = <<>>
    /\ result = "pending"

\* && written for ||
CredsMissing_BothMissing(e) == ~Truthy(e.NAVER_CLIENT_ID) /\ ~Truthy(e.NAVER_CLIENT_SECRET)

\* line 26
CredsMissing(e) == ~Truthy(e.NAVER_CLIENT_ID) \/ ~Truthy(e.NAVER_CLIENT_SECRET)

\* lines 23-29
CheckCredentials ==
    /\ pc = "start"
    /\ IF CredsMissing(env)
       THEN /\ out' = Append(out, Line("stderr", "configError", <<>>))
            /\ pc' = "done"
            /\ result' = "resolved"
       ELSE /\ pc' = "construct"
            /\ UNCHANGED <<out, result>>
    /\ UNCHANGED <<env, productId, naverAPI, detailCalls, productDetail, reads,
                   optionInfo, parseCalls, parsed, error, caught>>

\* lines 31-33: new NaverCommerceAPI(CLIENT_ID, CLIENT_SECRET) and the start line
Construct ==
    /\ pc = "construct"
    /\ naverAPI' = Obj([clientId |-> env.NAVER_CLIENT_ID,
                        clientSecret |-> env.NAVER_CLIENT_SECRET])
    /\ out' = Append(out, Line("stdout", "start", <<productId>>))
    /\ pc' = "fetch"
    /\ UNCHANGED <<env, productId, detailCalls, productDetail, reads,
                   optionInfo, parseCalls, parsed, error, caught, result>>

\* line 38: the awaited call resolves with a value
FetchResolves ==
    /\ pc = "fetch"
    /\ detailCalls' = Append(detailCalls, productId)
    /\ \E d \in FalsyResults \cup ProductDetails : productDetail' = d
    /\ pc' = "checkDetail"
    /\ UNCHANGED <<env, productId, naverAPI, reads, optionInfo, parseCalls, parsed,
                   error, caught, out, result>>

\* line 38: the call throws or the awaited promise rejects
FetchRejects ==
    /\ pc = "fetch"
    /\ detailCalls' = Append(detailCalls, productId)
    /\ \E r \in RejectReasons : error' = r
    /\ pc' = "catch"
    /\ UNCHANGED <<env, productId, naverAPI, productDetail, reads, optionInfo,
                   parseCalls, parsed, caught, out, result>>

\* productDetail === null written for !productDetail
DetailMissing_NullOnly(d) == d.t = "null"

\* line 40
DetailMissing(d) == ~Truthy(d)

\* lines 40-43
CheckDetail ==
    /\ pc = "checkDetail"
    /\ IF DetailMissing(productDetail)
       THEN /\ out' = Append(out, Line("stderr", "notFound", <<>>))
            /\ pc' = "done"
            /\ result' = "resolved"
       ELSE /\ pc' = "name"
            /\ UNCHANGED <<out, result>>
    /\ UNCHANGED <<env, productId, naverAPI, detailCalls, productDetail, reads,
                   optionInfo, parseCalls, parsed, error, caught>>

\* line 45
PrintName ==
    /\ pc = "name"
    /\ IF Nullish(productDetail)
       THEN /\ error' = TypeError
            /\ pc' = "catch"
            /\ UNCHANGED <<out, reads>>
       ELSE /\ reads' = reads \cup {"name"}
            /\ out' = Append(out, Line("stdout", "name",
                                       <<ToStr(GetProp(productDetail, "name"))>>))
            /\ pc' = "extract"
            /\ UNCHANGED error
    /\ UNCHANGED <<env, productId, naverAPI, detailCalls, productDetail,
                   optionInfo, parseCalls, parsed, caught, result>>

Ok(v) == [threw |-> FALSE, value |-> v]
Throw(e) == [threw |-> TRUE, value |-> e]

\* plain member access written for ?.
ExtractOptionInfo_NoChaining(d) ==
    IF Nullish(d) THEN Throw(TypeError)
    ELSE LET op == GetProp(d, "originProduct") IN
         IF Nullish(op) THEN Throw(TypeError)
         ELSE LET da == GetProp(op, "detailAttribute") IN
              IF Nullish(da) THEN Throw(TypeError)
              ELSE Ok(GetProp(da, "optionInfo"))

\* line 48: productDetail.originProduct?.detailAttribute?.optionInfo
ExtractOptionInfo(d) ==
    IF Nullish(d) THEN Throw(TypeError)
    ELSE LET op == GetProp(d, "originProduct") IN
         IF Nullish(op) THEN Ok(Undefined)
         ELSE LET da == GetProp(op, "detailAttribute") IN
              IF Nullish(da) THEN Ok(Undefined)
              ELSE Ok(GetProp(da, "optionInfo"))

Extract ==
    /\ pc = "extract"
    /\ LET r == ExtractOptionInfo(productDetail) IN
       IF r.threw
       THEN /\ error' = r.value
            /\ pc' = "catch"
            /\ UNCHANGED <<optionInfo, reads>>
       ELSE /\ optionInfo' = r.value
            /\ reads' = reads \cup {"originProduct"}
            /\ pc' = "checkOption"
            /\ UNCHANGED error
    /\ UNCHANGED <<env, productId, naverAPI, detailCalls, productDetail,
                   parseCalls, parsed, caught, out, result>>

\* an optionInfo without any entry treated like a missing one
OptionInfoMissing_OrEmpty(oi) ==
    \/ ~Truthy(oi)
    \/ \A f \in {"optionSimple", "optionCombinations", "optionCustom", "optionStandards"} :
          \/ ~Truthy(GetProp(oi, f))
          \/ GetProp(GetProp(oi, f), "length") = Num(0)

\* line 50
OptionInfoMissing(oi) == ~Truthy(oi)

\* lines 50-53
CheckOptionInfo ==
    /\ pc = "checkOption"
    /\ IF OptionInfoMissing(optionInfo)
       THEN /\ out' = Append(out, Line("stdout", "noOptions", <<>>))
            /\ pc' = "done"
            /\ result' = "resolved"
       ELSE /\ pc' = "dump"
            /\ UNCHANGED <<out, result>>
    /\ UNCHANGED <<env, productId, naverAPI, detailCalls, productDetail, reads,
                   optionInfo, parseCalls, parsed, error, caught>>

\* lines 55-59
DumpRaw ==
    /\ pc = "dump"
    /\ out' = out \o <<Line("stdout", "rawHeader", <<>>),
                       Line("stdout", "rawJson", <<JSONstringify(optionInfo)>>),
                       Line("stdout", "typeHeader", <<>>)>>
    /\ pc' = "simple"
    /\ UNCHANGED <<env, productId, naverAPI, detailCalls, productDetail, reads,
                   optionInfo, parseCalls, parsed, error, caught, result>>

\* the combinations block placed after the custom block
StepAfter_Swapped(p) ==
    CASE p = "simple" -> "custom"
      [] p = "custom" -> "combinations"
      [] p = "combinations" -> "standards"
      [] p = "standards" -> "parse"

\* the order of the four blocks of lines 61-94 and of the parser call after them
StepAfter(p) ==
    CASE p = "simple" -> "combinations"
      [] p = "combinations" -> "custom"
      [] p = "custom" -> "standards"
      [] p = "standards" -> "parse"

\* the length test left out
SectionPresent_NoLength(c) == Truthy(c)

\* c && c.length > 0
SectionPresent(c) == Truthy(c) /\ GetProp(c, "length").t = "number" /\ GetProp(c, "length").n > 0

\* lines 62-67
SimpleLines(oi) ==
    LET c == GetProp(oi, "optionSimple") IN
    IF SectionPresent(c)
    THEN <<Line("stdout", "simpleHeader", <<>>)>>
         \o [i \in 1..Len(c.a) |->
               Line("stdout", "simpleEntry",
                    <<ToStr(GetProp(c.a[i], "groupName")),
                      ToStr(GetProp(c.a[i], "name")),
                      ToStr(GetProp(c.a[i], "id"))>>)]
    ELSE <<>>

\* line 72: optionInfo.optionCombinationGroupNames || []
GroupNames(oi) ==
    LET g == GetProp(oi, "optionCombinationGroupNames") IN
    IF Truthy(g) THEN g ELSE Arr(<<>>)

\* the group-name line printed inside the forEach
CombinationLines_PerEntry(oi) ==
    LET c == GetProp(oi, "optionCombinations") IN
    IF SectionPresent(c)
    THEN <<Line("stdout", "combinationHeader", <<>>)>>
         \o [k \in 1..(2 * Len(c.a)) |->
               IF k % 2 = 1
               THEN Line("stdout", "groupNames", <<Join(GroupNames(oi), ", ")>>)
               ELSE Line("stdout", "combinationEntry",
                         <<ToStr(GetProp(c.a[k \div 2], "optionName")),
                           ToStr(GetProp(c.a[k \div 2], "id")),
                           ToStr(GetProp(c.a[k \div 2], "stockQuantity"))>>)]
    ELSE <<>>

\* lines 70-78
CombinationLines(oi) ==
    LET c == GetProp(oi, "optionCombinations") IN
    IF SectionPresent(c)
    THEN <<Line("stdout", "combinationHeader", <<>>),
           Line("stdout", "groupNames", <<Join(GroupNames(oi), ", ")>>)>>
         \o [i \in 1..Len(c.a) |->
               Line("stdout", "combinationEntry",
                    <<ToStr(GetProp(c.a[i], "optionName")),
                      ToStr(GetProp(c.a[i], "id")),
                      ToStr(GetProp(c.a[i], "stockQuantity"))>>)]
    ELSE <<>>

\* lines 81-86
CustomLines(oi) ==
    LET c == GetProp(oi, "optionCustom") IN
    IF SectionPresent(c)
    THEN <<Line("stdout", "customHeader", <<>>)>>
         \o [i \in 1..Len(c.a) |->
               Line("stdout", "customEntry",
                    <<ToStr(GetProp(c.a[i], "groupName")),
                      ToStr(GetProp(c.a[i], "inputLimit"))>>)]
    ELSE <<>>

\* ?? written for ||
DisplayName_Nullish(std) ==
    LET n == GetProp(std, "optionName") IN
    IF ~Nullish(n) THEN n ELSE GetProp(std, "standardOptionName")

\* line 92: std.optionName || std.standardOptionName
DisplayName(std) ==
    LET n == GetProp(std, "optionName") IN
    IF Truthy(n) THEN n ELSE GetProp(std, "standardOptionName")

\* lines 89-94
StandardLines(oi) ==
    LET c == GetProp(oi, "optionStandards") IN
    IF SectionPresent(c)
    THEN <<Line("stdout", "standardHeader", <<>>)>>
         \o [i \in 1..Len(c.a) |->
               Line("stdout", "standardEntry",
                    <<ToStr(DisplayName(c.a[i])), ToStr(GetProp(c.a[i], "id"))>>)]
    ELSE <<>>

SimpleSection ==
    /\ pc = "simple"
    /\ out' = out \o SimpleLines(optionInfo)
    /\ pc' = StepAfter("simple")
    /\ UNCHANGED <<env, productId, naverAPI, detailCalls, productDetail, reads,
                   optionInfo, parseCalls, parsed, error, caught, result>>

CombinationSection ==
    /\ pc = "combinations"
    /\ out' = out \o CombinationLines(optionInfo)
    /\ pc' = StepAfter("combinations")
    /\ UNCHANGED <<env, productId, naverAPI, detailCalls, productDetail, reads,
                   optionInfo, parseCalls, parsed, error, caught, result>>

CustomSection ==
    /\ pc = "custom"
    /\ out' = out \o CustomLines(optionInfo)
    /\ pc' = StepAfter("custom")
    /\ UNCHANGED <<env, productId, naverAPI, detailCalls, productDetail, reads,
                   optionInfo, parseCalls, parsed, error, caught, result>>

StandardSection ==
    /\ pc = "standards"
    /\ out' = out \o StandardLines(optionInfo)
    /\ pc' = StepAfter("standards")
    /\ UNCHANGED <<env, productId, naverAPI, detailCalls, productDetail, reads,
                   optionInfo, parseCalls, parsed, error, caught, result>>

\* the module constant passed instead of the parameter
ParseArgs_FixedId(oi, pid) == <<oi, TARGET_PRODUCT_ID>>

\* line 98: the arguments of naverAPI.parseOptionInfo
ParseArgs(oi, pid) == <<oi, pid>>

\* lines 97-99; the value the collaborator returns is any of ParsedOptions
ParseWithClient ==
    /\ pc = "parse"
    /\ parseCalls' = Append(parseCalls, ParseArgs(optionInfo, productId))
    /\ \E p \in ParsedOptions : parsed' = p
    /\ out' = out \o <<Line("stdout", "parserHeader", <<>>),
                       Line("stdout", "parsedJson", <<JSONstringify(parsed')>>)>>
    /\ pc' = "done"
    /\ result' = "resolved"
    /\ UNCHANGED <<env, productId, naverAPI, detailCalls, productDetail, reads,
                   optionInfo, error, caught>>

\* lines 101-103: reading error.message of null or undefined throws out of
\* the handler, which rejects the promise of the async function
Catch ==
    /\ pc = "catch"
    /\ caught' = caught + 1
    /\ IF Nullish(error)
       THEN /\ result' = "rejected"
            /\ UNCHANGED out
       ELSE /\ out' = Append(out, Line("stderr", "fetchError",
                                       <<ToStr(GetProp(error, "message"))>>))
            /\ result' = "resolved"
    /\ pc' = "done"
    /\ UNCHANGED <<env, productId, naverAPI, detailCalls, productDetail, reads,
                   optionInfo, parseCalls, parsed, error>>

Next ==
    \/ CheckCredentials
    \/ Construct
    \/ FetchResolves
    \/ FetchRejects
    \/ CheckDetail
    \/ PrintName
    \/ Extract
    \/ CheckOptionInfo
    \/ DumpRaw
    \/ SimpleSection
    \/ CombinationSection
    \/ CustomSection
    \/ StandardSection
    \/ ParseWithClient
    \/ Catch

Spec == Init /\ [][Next]_vars

TypeOK ==
    /\ pc \in {"start", "construct", "fetch", "checkDetail", "name", "extract",
               "checkOption", "dump", "simple", "combinations", "custom",
               "standards", "parse", "catch", "done"}
    /\ result \in {"pending", "resolved", "rejected"}
    /\ (result = "pending") = (pc # "done")
    /\ caught \in 0..1

(***************************************************************************)
(* Vocabulary of the properties                                            *)
(***************************************************************************)
Count(o, k) == Cardinality({i \in DOMAIN o : o[i].kind = k})

LinesOf(o, k) == SelectSeq(o, LAMBDA l : l.kind = k)

FirstPos(o, k) == CHOOSE i \in DOMAIN o : o[i].kind = k /\ \A j \in 1..(i - 1) : o[j].kind # k

HeaderKinds == {"simpleHeader", "combinationHeader", "customHeader", "standardHeader"}

EntryKinds == {"simpleEntry", "combinationEntry", "customEntry", "standardEntry"}

SectionKinds == HeaderKinds \cup EntryKinds \cup {"groupNames"}

NoSectionOutput == \A i \in DOMAIN out : out[i].kind \notin SectionKinds

StartLine == Line("stdout", "start", <<productId>>)

\* the optionInfo field carried by a response, read off the response itself
RespOptionInfo(d) ==
    IF d.t # "object" \/ "originProduct" \notin DOMAIN d.o THEN Undefined
    ELSE LET op == d.o.originProduct IN
         IF op.t # "object" \/ "detailAttribute" \notin DOMAIN op.o THEN Undefined
         ELSE LET da == op.o.detailAttribute IN
              IF da.t # "object" \/ "optionInfo" \notin DOMAIN da.o THEN Undefined
              ELSE da.o.optionInfo

\* a collection that is missing, null or an empty array
EmptyCollection(oi, f) ==
    \/ f \notin DOMAIN oi.o
    \/ oi.o[f].t \in {"undefined", "null"}
    \/ oi.o[f].t = "array" /\ Len(oi.o[f].a) = 0

VariantFields == {"optionSimple", "optionCombinations", "optionCustom", "optionStandards"}

Formatted == pc \in {"parse", "done"} /\ optionInfo.t = "object"

(***************************************************************************)
(* C1: when NAVER_CLIENT_ID or NAVER_CLIENT_SECRET is unset or empty, the  *)
(* run reports the configuration error on the error stream and ends        *)
(* normally; the client is never constructed and neither                   *)
(* getChannelProductDetail nor parseOptionInfo is ever called.             *)
(***************************************************************************)
EnvMissing ==
    \/ env.NAVER_CLIENT_ID \in {Undefined, Str("")}
    \/ env.NAVER_CLIENT_SECRET \in {Undefined, Str("")}

C1_ConfigErrorBranch ==
    EnvMissing =>
        /\ pc \in {"start", "done"}
        /\ naverAPI = Unset
        /\ detailCalls = <<>>
        /\ parseCalls = <<>>
        /\ caught = 0
        /\ pc = "done" => /\ out = <<Line("stderr", "configError", <<>>)>>
                          /\ result = "resolved"

C1_Witness ==
    /\ pc = "done"
    /\ env.NAVER_CLIENT_ID = Str("key")
    /\ env.NAVER_CLIENT_SECRET = Str("")
    /\ Len(out) = 1

(***************************************************************************)
(* C2: when getChannelProductDetail resolves to null or another falsy      *)
(* value, the run reports the guidance message and ends: no field of the   *)
(* result is read, nothing else is printed, parseOptionInfo is not called  *)
(* and no exception is raised or caught.                                   *)
(***************************************************************************)
C2_NotFoundBranch ==
    productDetail \in {Null, Undefined, Num(0), Str(""), Bool(FALSE)} =>
        /\ pc \in {"checkDetail", "done"}
        /\ reads = {}
        /\ optionInfo = Unset
        /\ parseCalls = <<>>
        /\ error = Unset
        /\ caught = 0
        /\ pc = "done" => /\ out = <<StartLine, Line("stderr", "notFound", <<>>)>>
                          /\ result = "resolved"

C2_Witness ==
    /\ pc = "done"
    /\ productDetail = Undefined
    /\ Count(out, "notFound") = 1

(***************************************************************************)
(* C3: every failure of the getChannelProductDetail call (a rejected       *)
(* promise or a thrown value) is caught by the handler, its message is     *)
(* logged exactly once, nothing of the option report follows, and the      *)
(* promise of getProductOptionExample resolves.                            *)
(***************************************************************************)
FetchFailed == productDetail = Unset /\ error # Unset

C3_FetchFailureHandled ==
    (FetchFailed /\ pc = "done") =>
        /\ caught = 1
        /\ Count(out, "fetchError") = 1
        /\ out[Len(out)].kind = "fetchError"
        /\ NoSectionOutput
        /\ parseCalls = <<>>
        /\ result = "resolved"

(***************************************************************************)
(* C4 (as stated): for a present OptionInfo object whose four variant      *)
(* collections are all absent or empty, the report is exactly the          *)
(* "no options" notice, with no section header.                            *)
(***************************************************************************)
AllVariantsEmpty(oi) ==
    oi.t = "object" /\ \A f \in VariantFields : EmptyCollection(oi, f)

C4_EmptyOptionInfoGetsNotice ==
    (pc = "done" /\ AllVariantsEmpty(RespOptionInfo(productDetail))) =>
        /\ Count(out, "noOptions") = 1
        /\ out[Len(out)].kind = "noOptions"
        /\ \A i \in DOMAIN out : out[i].kind \notin HeaderKinds

(***************************************************************************)
(* C4 (amended): for a present OptionInfo object whose four variant        *)
(* collections are all absent or empty, no section header and no entry     *)
(* line is printed, and neither is the "no options" notice: the run prints *)
(* the raw dump, the per-type header and the parser result.  The notice is *)
(* printed exactly when optionInfo itself is absent.                       *)
(***************************************************************************)
C4_EmptyOptionInfoGetsNoSection ==
    /\ (pc = "done" /\ AllVariantsEmpty(RespOptionInfo(productDetail))) =>
          /\ NoSectionOutput
          /\ Count(out, "noOptions") = 0
          /\ [i \in DOMAIN out |-> out[i].kind] =
                <<"start", "name", "rawHeader", "rawJson", "typeHeader",
                  "parserHeader", "parsedJson">>
          /\ Len(parseCalls) = 1
    /\ (pc = "done" /\ productDetail.t = "object") =>
          (Count(out, "noOptions") = 1
              <=> RespOptionInfo(productDetail).t \in {"undefined", "null"})

C4_Witness ==
    /\ pc = "done"
    /\ RespOptionInfo(productDetail).t = "object"
    /\ DOMAIN RespOptionInfo(productDetail).o # {}
    /\ AllVariantsEmpty(RespOptionInfo(productDetail))
    /\ RespOptionInfo(productDetail).o.optionSimple = Arr(<<>>)
    /\ Count(out, "parsedJson") = 1

(***************************************************************************)
(* C5: a valid product whose optionInfo is absent (originProduct,          *)
(* detailAttribute or optionInfo missing) gets one "no options" notice on  *)
(* standard output and the run ends normally: no raw dump, no section, no  *)
(* parseOptionInfo call, and the failure handler is never entered.         *)
(***************************************************************************)
C5_NoOptionsBranch ==
    (productDetail.t = "object" /\ RespOptionInfo(productDetail).t \in {"undefined", "null"}) =>
        /\ pc \in {"checkDetail", "name", "extract", "checkOption", "done"}
        /\ parseCalls = <<>>
        /\ error = Unset
        /\ caught = 0
        /\ pc = "done" =>
              /\ out = <<StartLine,
                         Line("stdout", "name", <<"Shirt">>),
                         Line("stdout", "noOptions", <<>>)>>
              /\ result = "resolved"

C5_Witness ==
    /\ pc = "done"
    /\ productDetail = Obj([name |-> Str("Shirt"), originProduct |-> Null])
    /\ Count(out, "noOptions") = 1

(***************************************************************************)
(* C6: for a present optionInfo, each variant prints its section header    *)
(* exactly when its collection is present and non-empty; the section then  *)
(* holds one entry line per element, in the order of the collection; an    *)
(* absent or empty variant prints neither header nor entry line.           *)
(***************************************************************************)
FieldText(e, f) == IF f \in DOMAIN e.o THEN ToStr(e.o[f]) ELSE "undefined"

\* the name an optionStandards entry is shown with: optionName unless it is
\* missing, null or empty
StandardText(e) ==
    IF "optionName" \in DOMAIN e.o /\ e.o.optionName.t = "string" /\ e.o.optionName.s # ""
    THEN e.o.optionName.s
    ELSE FieldText(e, "standardOptionName")

SimpleArgs(e) == <<FieldText(e, "groupName"), FieldText(e, "name"), FieldText(e, "id")>>
CombinationArgs(e) == <<FieldText(e, "optionName"), FieldText(e, "id"), FieldText(e, "stockQuantity")>>
CustomArgs(e) == <<FieldText(e, "groupName"), FieldText(e, "inputLimit")>>
StandardArgs(e) == <<StandardText(e), FieldText(e, "id")>>

SectionAsClaimed(f, header, entry, lead, Args(_)) ==
    IF EmptyCollection(optionInfo, f)
    THEN Count(out, header) = 0 /\ Count(out, entry) = 0
    ELSE LET a == optionInfo.o[f].a IN
         /\ Count(out, header) = 1
         /\ Count(out, entry) = Len(a)
         /\ LET h == FirstPos(out, header) IN
            /\ h + lead + Len(a) <= Len(out)
            /\ \A i \in 1..Len(a) : out[h + lead + i] = Line("stdout", entry, Args(a[i]))

C6_SectionsMatchCollections ==
    Formatted =>
        /\ SectionAsClaimed("optionSimple", "simpleHeader", "simpleEntry", 0, SimpleArgs)
        /\ SectionAsClaimed("optionCombinations", "combinationHeader", "combinationEntry", 1, CombinationArgs)
        /\ SectionAsClaimed("optionCustom", "customHeader", "customEntry", 0, CustomArgs)
        /\ SectionAsClaimed("optionStandards", "standardHeader", "standardEntry", 0, StandardArgs)

C6_Witness ==
    /\ pc = "done"
    /\ optionInfo.t = "object"
    /\ ~EmptyCollection(optionInfo, "optionStandards")
    /\ Len(optionInfo.o.optionStandards.a) = 2
    /\ optionInfo.o.optionStandards.a[1] # optionInfo.o.optionStandards.a[2]
    /\ ~EmptyCollection(optionInfo, "optionSimple")
    /\ optionInfo.o.optionCustom = Arr(<<>>)
    /\ Count(out, "standardEntry") = 2
    /\ Count(out, "simpleEntry") = 1
    /\ Count(out, "customHeader") = 0

(***************************************************************************)
(* C7: the sections are printed in the order simple, combinations, custom, *)
(* standards: every line of an earlier section precedes the header of a    *)
(* later one, and all section output precedes the parseOptionInfo call and *)
(* the printing of its result.                                             *)
(***************************************************************************)
Rank(k) ==
    CASE k \in {"simpleHeader", "simpleEntry"} -> 1
      [] k \in {"combinationHeader", "groupNames", "combinationEntry"} -> 2
      [] k \in {"customHeader", "customEntry"} -> 3
      [] k \in {"standardHeader", "standardEntry"} -> 4
      [] k \in {"parserHeader", "parsedJson"} -> 5
      [] OTHER -> 0

C7_SectionOrder ==
    /\ \A i, j \in DOMAIN out : i < j => Rank(out[i].kind) <= Rank(out[j].kind)
    /\ parseCalls # <<>> => /\ pc = "done"
                            /\ Count(out, "parserHeader") = 1
                            /\ out[Len(out)].kind = "parsedJson"
    /\ parseCalls = <<>> => Count(out, "parserHeader") = 0 /\ Count(out, "parsedJson") = 0

C7_Witness ==
    /\ pc = "done"
    /\ \A k \in HeaderKinds : Count(out, k) = 1
    /\ Len(parseCalls) = 1

(***************************************************************************)
(* C8: with a non-empty optionCombinations the group-name line is printed  *)
(* once, right after the section header and before the first combination   *)
(* line, showing optionCombinationGroupNames joined by ", " (an empty list *)
(* when the field is absent); without combinations it is never printed.    *)
(***************************************************************************)
GroupText ==
    IF /\ "optionCombinationGroupNames" \in DOMAIN optionInfo.o
       /\ optionInfo.o.optionCombinationGroupNames = Arr(<<Str("Color"), Str("Size")>>)
    THEN "Color, Size"
    ELSE ""

C8_GroupNamesOnce ==
    Formatted =>
        IF EmptyCollection(optionInfo, "optionCombinations")
        THEN Count(out, "groupNames") = 0
        ELSE /\ Count(out, "groupNames") = 1
             /\ Count(out, "combinationHeader") = 1
             /\ LET g == FirstPos(out, "groupNames") IN
                /\ g = FirstPos(out, "combinationHeader") + 1
                /\ out[g] = Line("stdout", "groupNames", <<GroupText>>)
                /\ \A i \in DOMAIN out : out[i].kind = "combinationEntry" => g < i

C8_Witness ==
    /\ pc = "done"
    /\ optionInfo.t = "object"
    /\ ~EmptyCollection(optionInfo, "optionCombinations")
    /\ Len(optionInfo.o.optionCombinations.a) >= 2
    /\ GroupText = "Color, Size"
    /\ Count(out, "groupNames") = 1

(***************************************************************************)
(* C9 (as stated): an optionStandards entry is shown with optionName       *)
(* whenever optionName is non-null, the empty string included, and with    *)
(* standardOptionName only when optionName is absent.                      *)
(***************************************************************************)
NonNullText(e) ==
    IF "optionName" \in DOMAIN e.o /\ e.o.optionName.t \notin {"undefined", "null"}
    THEN ToStr(e.o.optionName)
    ELSE FieldText(e, "standardOptionName")

StandardsShownAs(Text(_)) ==
    (Formatted /\ ~EmptyCollection(optionInfo, "optionStandards")) =>
        LET a == optionInfo.o.optionStandards.a
            shown == LinesOf(out, "standardEntry")
        IN  /\ Len(shown) = Len(a)
            /\ \A i \in 1..Len(a) : shown[i].args[1] = Text(a[i])

C10_ParserCalledOnceUnchanged ==
    /\ Len(detailCalls) <= 1
    /\ Len(parseCalls) <= 1
    /\ detailCalls # <<>> => detailCalls = <<productId>>
    /\ (pc = "done" /\ RespOptionInfo(productDetail).t = "object") =>
          /\ parseCalls = <<<<RespOptionInfo(productDetail), detailCalls[1]>>>>
          /\ parsed \in ParsedOptions
          /\ out[Len(out)] = Line("stdout", "parsedJson", <<JSONstringify(parsed)>>)
          /\ Count(out, "parsedJson") = 1
    /\ (pc = "done" /\ RespOptionInfo(productDetail).t # "object") =>
          /\ parseCalls = <<>>
          /\ parsed = Unset

C10_Witness ==
    /\ pc = "done"
    /\ productId = "42"
    /\ Len(parseCalls) = 1
    /\ parseCalls[1][2] = "42"
    /\ ~EmptyCollection(parseCalls[1][1], "optionSimple")
    /\ ~EmptyCollection(parseCalls[1][1], "optionStandards")
====
